---- MODULE Spec2Model ----
(***************************************************************************)
(* A model of the AI-Diary backend (src/main.py): five request handlers    *)
(* over a remote document store.  Every call a handler makes to the store  *)
(* is one atomic step; what a handler computes locally between two store   *)
(* calls belongs to the step of the store call before it.  Two clients     *)
(* issue requests for one user.  Under Spec a request starts only when no  *)
(* other request is in flight (non-overlapping calls); under SpecOverlap,  *)
(* SpecOverlapChat and SpecOverlapRiddle requests overlap freely.          *)
(* SpecChunk and SpecSanitize apply the helpers chunk_text and             *)
(* sanitize_text to every argument of a bounded set.                       *)
(***************************************************************************)
EXTENDS Integers, Sequences, FiniteSets, TLC

VARIABLES
    now,      \* the wall clock and the store's server clock, in ticks
    user,     \* the document users/{user_id}: field name -> value
    chats,    \* the collection users/{user_id}/chats: document id -> document
    profile,  \* the document users/{user_id}/profile/settings
    pc,       \* per client: the store call its handler makes next
    loc,      \* per client: the handler's local variables
    resp,     \* the response returned last
    wrote,    \* the request that last wrote last_riddle or last_chat_date
    solved,   \* the days of the correct answers that no get_riddle call of a
              \* later day has followed yet
    stored,   \* per ChatDay and text: the store_chat requests that returned
    summarizer_calls,  \* the chunks the last summarize_chats request passed
                       \* to the summarizer
    calc,     \* the call of a helper function examined on its own: its
              \* arguments and its result
    answered, \* where requests overlap: the catalog questions whose answer a
              \* verify_answer request has been given
    erased    \* a get_riddle write has replaced a last_chat_date recorded
              \* after that request had read the document

vars == <<now, user, chats, profile, pc, loc, resp, wrote, solved, stored,
          summarizer_calls, calc, answered, erased>>

----------------------------------------------------------------------------
(* Bounds of the model *)

\* The clock stops at MaxTime.
MaxTime == 3
\* Ticks in a calendar day.
TicksPerDay == 2

\* store_chat requests that start while the store holds, and the requests in
\* flight are about to add, fewer than MaxChats messages
MaxChats == 2
MaxChunkText == 5    \* characters of a text given to chunk_text
MaxBudget == 3       \* max_tokens given to chunk_text
MaxSanitizeText == 3 \* characters of a text given to sanitize_text

\* The two simultaneous clients of spec section 5.
Clients == {"c1", "c2"}

----------------------------------------------------------------------------
(* Strings.  A string the code inspects character by character is a        *)
(* sequence of one-character strings; a string it only compares is a       *)
(* TLA+ string.                                                            *)

Lowercase == <<"a","b","c","d","e","f","g","h","i","j","k","l","m",
               "n","o","p","q","r","s","t","u","v","w","x","y","z">>
Uppercase == <<"A","B","C","D","E","F","G","H","I","J","K","L","M",
               "N","O","P","Q","R","S","T","U","V","W","X","Y","Z">>
Digits == {"0","1","2","3","4","5","6","7","8","9"}
Whitespace == {" ", "\t", "\n", "\r"}
Letters == {Lowercase[i] : i \in 1..26} \cup {Uppercase[i] : i \in 1..26}

\* str.lower() on one character
LowerChar(ch) ==
    IF \E i \in 1..26 : Uppercase[i] = ch
    THEN Lowercase[CHOOSE i \in 1..26 : Uppercase[i] = ch]
    ELSE ch

\* str.lower()
lower(s) == [i \in 1..Len(s) |-> LowerChar(s[i])]

\* str.strip(): drops the leading and the trailing whitespace
strip(s) ==
    LET keep == {i \in 1..Len(s) : s[i] \notin Whitespace}
    IN  IF keep = {} THEN <<>>
        ELSE SubSeq(s, CHOOSE i \in keep : \A j \in keep : i <= j,
                       CHOOSE i \in keep : \A j \in keep : j <= i)

\* str.split(): the maximal runs of characters that are not whitespace
RECURSIVE split(_)
split(text) ==
    IF text = <<>> THEN <<>>
    ELSE IF Head(text) \in Whitespace THEN split(Tail(text))
    ELSE LET stops == {i \in 1..Len(text) : text[i] \in Whitespace}
             n == IF stops = {} THEN Len(text)
                  ELSE (CHOOSE i \in stops : \A j \in stops : i <= j) - 1
         IN  <<SubSeq(text, 1, n)>> \o split(SubSeq(text, n + 1, Len(text)))

\* " ".join(words)
RECURSIVE join(_)
join(words) ==
    IF words = <<>> THEN <<>>
    ELSE IF Len(words) = 1 THEN words[1]
    ELSE words[1] \o <<" ">> \o join(Tail(words))

\* range(start, stop, step), step > 0
range(start, stop, step) ==
    [k \in 1..(IF stop <= start THEN 0 ELSE (stop - start + step - 1) \div step) |->
        start + (k - 1) * step]

\* seq[i:j], 0 <= i <= j: the end is clipped to the length
slice(seq, i, j) ==
    SubSeq(seq, i + 1, IF j < Len(seq) THEN j ELSE Len(seq))

\* All strings over chars of at most n characters
Strings(chars, n) == UNION {[1..k -> chars] : k \in 0..n}

\* The text is stripped first and its characters are filtered after
sanitize_text_strip_first(text) ==
    SelectSeq(strip(text), LAMBDA ch : ch \in Letters \cup Digits \cup Whitespace)

\* re.sub(r"[^a-zA-Z0-9\s]", "", text).strip()
sanitize_text(text) ==
    strip(SelectSeq(text, LAMBDA ch : ch \in Letters \cup Digits \cup Whitespace))

----------------------------------------------------------------------------
(* Program constants *)

DEFAULT_AI_NAME == <<"H","e","l","l","o"," ","W","o","r","l","d">>
DEFAULT_PFP == <<>>

riddles == <<
    [question |-> "The more you take, the more you leave behind. What am I?",
     answer   |-> <<"f","o","o","t","s","t","e","p","s">>],
    [question |-> "I speak without a mouth and hear without ears. What am I?",
     answer   |-> <<"a","n"," ","e","c","h","o">>] >>

\* timedelta(days=7)
WindowDays == 7

\* Python's None, where a field may hold None or a date string
None == <<>>
\* dict.get of a missing last_riddle: None, which equals no question
NoRiddle == "None"

----------------------------------------------------------------------------
(* Inputs of the requests *)

Messages == { <<"g","o","o","d"," ","d","a","y">> }

Answers == {
    <<"f","o","o","t","s","t","e","p","s">>,
    <<"f","o","o","t"," ","s","t","e","p","s">>,
    <<"\t","A","N"," ","E","C","H","O"," ">>,
    <<"e","c","h","o">> }

Names == { DEFAULT_AI_NAME, <<" ","D","r",".","Q","!"," ">> }
Pfps == { <<"a","/","b",".","p","n","g">> }

\* sanitize_text: texts of letters, a digit, whitespace and other characters
SanitizeChars == {"a", "Z", "7", " ", "\t", "_"}
SanitizeCalls ==
    {[fn |-> "sanitize_text", text |-> t, result |-> <<>>, again |-> <<>>, step |-> 0] :
        t \in Strings(SanitizeChars, MaxSanitizeText)}

\* chunk_text: texts of two letters and a blank, and small budgets
ChunkChars == {"a", "b", " "}
ChunkCalls ==
    {[fn |-> "chunk_text", text |-> t, max_tokens |-> b, result |-> <<>>, done |-> FALSE] :
        t \in Strings(ChunkChars, MaxChunkText), b \in 1..MaxBudget}

----------------------------------------------------------------------------
(* The document store *)

\* A document with no fields; users/{user_id} before its first write
NoDoc == [f \in {} |-> 0]

\* DocumentReference.set(data, merge=True): the fields of data replace the
\* document's fields of the same name, the other fields stay
SetMerge(doc, data) ==
    [f \in DOMAIN doc \cup DOMAIN data |-> IF f \in DOMAIN data THEN data[f] ELSE doc[f]]

\* dict.get(key) of a snapshot's to_dict() for a field that holds None or a string
Get(doc, f) == IF f \in DOMAIN doc THEN doc[f] ELSE None

\* ArrayUnion([e]): appends the elements the array does not hold yet
ArrayUnion(arr, e) ==
    IF \E i \in 1..Len(arr) : arr[i] = e THEN arr ELSE Append(arr, e)

\* date.today() / datetime.now() as a calendar day
Day(t) == t \div TicksPerDay
\* date.isoformat() and strftime("%Y-%m-%d"): the date as a string
IsoFormat(d) == <<d>>

----------------------------------------------------------------------------
(* Requests and responses *)

Response(status, key, val) == [status |-> status, key |-> key, val |-> val]

Idle == [today |-> 0, message |-> <<>>, answer |-> <<>>, riddle_data |-> NoDoc,
         selected |-> NoRiddle]

\* No response yet
NoResponse == Response(0, "", "")

\* A write of the riddle state: the handler, the answer it was given and the
\* day it read from the clock
Write(op, answer, today) == [op |-> op, answer |-> answer, today |-> today]

\* One more request counted under key k
Count(counts, k) ==
    [j \in DOMAIN counts \cup {k} |-> IF j = k THEN (IF k \in DOMAIN counts THEN counts[k] ELSE 0) + 1
                                      ELSE counts[j]]

\* A request may start: its client is idle and, unless calls may overlap,
\* so is every other client
Free(c, overlap) ==
    /\ pc[c] = "idle"
    /\ overlap \/ \A d \in Clients : pc[d] = "idle"

Return(c, response) ==
    /\ pc' = [pc EXCEPT ![c] = "idle"]
    /\ loc' = [loc EXCEPT ![c] = Idle]
    /\ resp' = response

\* No helper call is examined
NoCalc == [fn |-> "none"]

\* The state after construction with the profile settings document settings
\* in the store, before a call of the helper calls
InitWith(settings, calls) ==
    /\ now = 0
    /\ user = NoDoc
    /\ chats = [d \in {} |-> NoDoc]
    /\ profile = settings
    /\ pc = [c \in Clients |-> "idle"]
    /\ loc = [c \in Clients |-> Idle]
    /\ resp = NoResponse
    /\ wrote = Write("none", <<>>, 0)
    /\ solved = {}
    /\ stored = [k \in {} |-> 0]
    /\ summarizer_calls = <<>>
    /\ calc \in calls
    /\ answered = {}
    /\ erased = FALSE

Init ==
    /\ now = 0
    /\ user = NoDoc
    /\ chats = [d \in {} |-> NoDoc]
    /\ profile = NoDoc
    /\ pc = [c \in Clients |-> "idle"]
    /\ loc = [c \in Clients |-> Idle]
    /\ resp = NoResponse
    /\ wrote = Write("none", <<>>, 0)
    /\ solved = {}
    /\ stored = [k \in {} |-> 0]
    /\ summarizer_calls = <<>>
    /\ calc = NoCalc
    /\ answered = {}
    /\ erased = FALSE

\* Time passes.
Tick ==
    /\ now < MaxTime
    /\ now' = now + 1
    /\ UNCHANGED <<user, chats, profile, pc, loc, resp, wrote, solved, stored, summarizer_calls, calc, answered, erased>>

----------------------------------------------------------------------------
(* POST /chat/{user_id} *)

\* The messages the store holds plus the store_chat requests in flight
ChatLoad ==
    LET RECURSIVE Stored(_)
        Stored(ids) == IF ids = {} THEN 0
                       ELSE LET id == CHOOSE d \in ids : TRUE
                            IN  Len(Get(chats[id], "messages")) + Stored(ids \ {id})
    IN  Stored(DOMAIN chats)
        + Cardinality({c \in Clients : pc[c] \in {"store_chat_get", "store_chat_init",
                                                   "store_chat_update"}})

\* user_ref.set({"created_at": SERVER_TIMESTAMP}, merge=True)
store_chat_upsert(c, message, overlap) ==
    /\ Free(c, overlap)
    /\ ChatLoad < MaxChats
    /\ user' = SetMerge(user, [created_at |-> now])
    /\ pc' = [pc EXCEPT ![c] = "store_chat_get"]
    /\ loc' = [loc EXCEPT ![c] = [Idle EXCEPT !.today = Day(now), !.message = message]]
    /\ UNCHANGED <<now, chats, profile, resp, wrote, solved, stored, summarizer_calls, calc, answered, erased>>

\* doc = doc_ref.get(); if doc.exists
store_chat_get(c) ==
    /\ pc[c] = "store_chat_get"
    /\ pc' = [pc EXCEPT ![c] = IF IsoFormat(loc[c].today) \in DOMAIN chats
                               THEN "store_chat_update" ELSE "store_chat_init"]
    /\ UNCHANGED <<now, user, chats, profile, loc, resp, wrote, solved, stored, summarizer_calls, calc, answered, erased>>

\* doc_ref.set({"messages": []}): without merge, the document is replaced
store_chat_init(c) ==
    /\ pc[c] = "store_chat_init"
    /\ chats' = [d \in DOMAIN chats \cup {IsoFormat(loc[c].today)} |->
                    IF d = IsoFormat(loc[c].today) THEN [messages |-> <<>>] ELSE chats[d]]
    /\ pc' = [pc EXCEPT ![c] = "store_chat_update"]
    /\ UNCHANGED <<now, user, profile, loc, resp, wrote, solved, stored, summarizer_calls, calc, answered, erased>>

\* The server's commit times of one document strictly increase: a commit that
\* stamps an entry of the document waits for the clock to pass the entries
\* the document holds
ServerTimeFree(doc) ==
    \A i \in 1..Len(Get(doc, "messages")) : doc["messages"][i].timestamp < now

\* doc_ref.update({"messages": ArrayUnion([{"text": message, "timestamp": SERVER_TIMESTAMP}])})
store_chat_update(c) ==
    LET id == IsoFormat(loc[c].today)
        entry == [text |-> loc[c].message, timestamp |-> now]
    IN  /\ pc[c] = "store_chat_update"
        /\ id \in DOMAIN chats
        /\ ServerTimeFree(chats[id])
        /\ chats' = [chats EXCEPT ![id] =
                        SetMerge(@, [messages |-> ArrayUnion(Get(@, "messages"), entry)])]
        /\ Return(c, Response(200, "message", "Chat stored successfully"))
        /\ stored' = Count(stored, <<id, loc[c].message>>)
        /\ UNCHANGED <<now, user, profile, wrote, solved, summarizer_calls, calc, answered, erased>>

----------------------------------------------------------------------------
(* POST /profile/{user_id} *)

\* doc_ref.set(...) without merge: the document is replaced
set_ai_profile_no_merge(c, name, pfp, overlap) ==
    /\ Free(c, overlap)
    /\ profile' = [name |-> sanitize_text(name), pfp |-> sanitize_text(pfp)]
    /\ Return(c, Response(200, "message", "AI profile updated"))
    /\ UNCHANGED <<now, user, chats, wrote, solved, stored, summarizer_calls, calc, answered, erased>>

\* The pfp is stored as it was given
set_ai_profile_raw_pfp(c, name, pfp, overlap) ==
    /\ Free(c, overlap)
    /\ profile' = SetMerge(profile, [name |-> sanitize_text(name), pfp |-> pfp])
    /\ Return(c, Response(200, "message", "AI profile updated"))
    /\ UNCHANGED <<now, user, chats, wrote, solved, stored, summarizer_calls, calc, answered, erased>>

\* One call sanitize_text(text), examined on its own
sanitize_text_call ==
    /\ calc.fn = "sanitize_text"
    /\ calc.step = 0
    /\ calc' = [calc EXCEPT !.result = sanitize_text(calc.text), !.step = 1]
    /\ UNCHANGED <<now, user, chats, profile, pc, loc, resp, wrote, solved, stored,
                   summarizer_calls, answered, erased>>

\* sanitize_text applied to its own result
sanitize_text_again ==
    /\ calc.fn = "sanitize_text"
    /\ calc.step = 1
    /\ calc' = [calc EXCEPT !.again = sanitize_text(calc.result), !.step = 2]
    /\ UNCHANGED <<now, user, chats, profile, pc, loc, resp, wrote, solved, stored,
                   summarizer_calls, answered, erased>>

\* doc_ref.set({"name": sanitized_name, "pfp": sanitized_pfp}, merge=True)
set_ai_profile(c, name, pfp, overlap) ==
    /\ Free(c, overlap)
    /\ profile' = SetMerge(profile, [name |-> sanitize_text(name), pfp |-> sanitize_text(pfp)])
    /\ Return(c, Response(200, "message", "AI profile updated"))
    /\ UNCHANGED <<now, user, chats, wrote, solved, stored, summarizer_calls, calc, answered, erased>>

----------------------------------------------------------------------------
(* GET /summarize/{user_id} *)

\* def chunk_text(text, max_tokens=500)
DefaultMaxTokens == 500

\* The loop of chunk_text: a word joins current_chunk, and the chunk is closed
\* once its joined text has max_tokens characters
RECURSIVE chunk_text_loop(_, _, _, _)
chunk_text_loop(words, current_chunk, chunks, max_tokens) ==
    IF words = <<>>
    THEN IF current_chunk # <<>> THEN Append(chunks, join(current_chunk)) ELSE chunks
    ELSE LET current == Append(current_chunk, Head(words))
         IN  IF Len(join(current)) >= max_tokens
             THEN chunk_text_loop(Tail(words), <<>>, Append(chunks, join(current)), max_tokens)
             ELSE chunk_text_loop(Tail(words), current, chunks, max_tokens)

\* The chunks the loop collects, returned
chunk_text_by_characters(text, max_tokens) ==
    chunk_text_loop(split(text), <<>>, <<>>, max_tokens)

\* chunk_text returns the list comprehension over the words; the chunks its
\* loop collects are not used
chunk_text(text, max_tokens) ==
    LET words == split(text)
        starts == range(0, Len(words), max_tokens)
    IN  [k \in 1..Len(starts) |-> join(slice(words, starts[k], starts[k] + max_tokens))]

\* One call chunk_text(text, max_tokens), examined on its own
chunk_text_call ==
    /\ calc.fn = "chunk_text"
    /\ ~calc.done
    /\ calc' = [calc EXCEPT !.result = chunk_text(calc.text, calc.max_tokens), !.done = TRUE]
    /\ UNCHANGED <<now, user, chats, profile, pc, loc, resp, wrote, solved, stored,
                   summarizer_calls, answered, erased>>

\* db...collection("chats").where("timestamp", ">=", seven_days_ago).stream():
\* the documents of the collection that have a field "timestamp" at or after
\* the bound; a document without the field is not selected
where_timestamp_ge(bound) ==
    {d \in DOMAIN chats : "timestamp" \in DOMAIN chats[d] /\ chats[d]["timestamp"] >= bound}

\* messages.extend([msg["text"] for msg in doc_data.get("messages", [])]) over
\* the documents, then set(messages)
message_texts(docs) ==
    UNION {{chats[d]["messages"][i].text : i \in 1..Len(chats[d]["messages"])} : d \in docs}

\* The orders in which the elements of a set can be iterated
Orders(S) ==
    {f \in [1..Cardinality(S) -> S] : \A x \in S : \E i \in 1..Cardinality(S) : f[i] = x}

\* summarizer(chunk, max_length=150, min_length=30, do_sample=False)[0]['summary_text']:
\* the model is outside the program; its summary of a chunk is written here
\* as the chunk behind a mark
summarizer(chunk) == <<"~">> \o chunk

\* {"summary": "No messages found in the past 7 days."}; a summary is a
\* sequence, and the fixed sentence is its one element
NoMessagesFound == Response(200, "summary", <<"No messages found in the past 7 days.">>)

\* Every text is joined, chunked and summarized, with no test for an empty list
summarize_chats_result_no_check(order) ==
    LET chunks == chunk_text(join(order), DefaultMaxTokens)
    IN  [calls |-> chunks,
         response |-> Response(200, "summary",
                               join([k \in 1..Len(chunks) |-> summarizer(chunks[k])]))]

\* From "if not messages" to the return: the response and the chunks given
\* to the summarizer, for the unique messages in the order of their set
summarize_chats_result(order) ==
    IF order = <<>>
    THEN [calls |-> <<>>, response |-> NoMessagesFound]
    ELSE LET text == join(order)
             chunks == chunk_text(text, DefaultMaxTokens)
             summaries == [k \in 1..Len(chunks) |-> summarizer(chunks[k])]
         IN  [calls |-> chunks, response |-> Response(200, "summary", join(summaries))]

summarize_chats(c, overlap) ==
    LET seven_days_ago == now - WindowDays * TicksPerDay
        messages == message_texts(where_timestamp_ge(seven_days_ago))
    IN  /\ Free(c, overlap)
        /\ \E order \in Orders(messages) :
              /\ Return(c, summarize_chats_result(order).response)
              /\ summarizer_calls' = summarize_chats_result(order).calls
        /\ UNCHANGED <<now, user, chats, profile, wrote, solved, stored, calc, answered, erased>>

----------------------------------------------------------------------------
(* GET /get_riddle/{user_id} *)

\* A comparison with the date of the day after (a clock read in another zone)
completed_today_other_zone(riddle_data, today) ==
    Get(riddle_data, "last_chat_date") = IsoFormat(today + 1)

\* A completion of any day counts
completed_today_any_day(riddle_data, today) ==
    Get(riddle_data, "last_chat_date") # None

\* riddle_data.get("last_chat_date") == today.isoformat()
completed_today(riddle_data, today) ==
    Get(riddle_data, "last_chat_date") = IsoFormat(today)

\* No filter on the previous question
available_riddles_unfiltered(riddle_data) == riddles

\* [r for r in riddles if r["question"] != previous_riddle], or riddles when
\* that list is empty
available_riddles(riddle_data) ==
    LET previous_riddle == IF "last_riddle" \in DOMAIN riddle_data
                           THEN riddle_data["last_riddle"] ELSE NoRiddle
        available == SelectSeq(riddles, LAMBDA r : r.question # previous_riddle)
    IN  IF available = <<>> THEN riddles ELSE available

\* The write without the reset of last_chat_date
get_riddle_data_no_reset(selected) ==
    [last_riddle |-> selected]

\* A key of the catalog entry is stored in place of its question
get_riddle_data_entry_key(selected) ==
    [last_riddle |-> "riddle", last_chat_date |-> None]

\* the fields get_riddle writes
get_riddle_data(selected) ==
    [last_riddle |-> selected, last_chat_date |-> None]

\* riddle_data = user_ref.get().to_dict() or {}, the check of last_chat_date
\* and random.choice(available_riddles)
get_riddle_read(c, overlap) ==
    LET today == Day(now)
        riddle_data == user
    IN  /\ Free(c, overlap)
        /\ \/ /\ completed_today(riddle_data, today)
              /\ Return(c, Response(200, "message",
                               "You have already ended today's chat. Come back tomorrow!"))
           \/ /\ ~completed_today(riddle_data, today)
              /\ \E i \in 1..Len(available_riddles(riddle_data)) :
                    loc' = [loc EXCEPT ![c] = [Idle EXCEPT !.today = today,
                               !.riddle_data = riddle_data,
                               !.selected = available_riddles(riddle_data)[i].question]]
              /\ pc' = [pc EXCEPT ![c] = "get_riddle_write"]
              /\ UNCHANGED resp
        /\ solved' = {d \in solved : d >= today}
        /\ UNCHANGED <<stored, summarizer_calls, calc, answered, erased>>
        /\ UNCHANGED <<now, user, chats, profile, wrote>>

\* The write is skipped when the document is no longer the one the request
\* has read
get_riddle_write_if_unchanged(c) ==
    /\ pc[c] = "get_riddle_write"
    /\ user' = IF Get(user, "last_chat_date") = Get(loc[c].riddle_data, "last_chat_date")
               THEN SetMerge(user, get_riddle_data(loc[c].selected))
               ELSE user
    /\ Return(c, Response(200, "riddle", loc[c].selected))
    /\ wrote' = Write("get_riddle", <<>>, loc[c].today)
    /\ UNCHANGED <<now, chats, profile, solved, stored, summarizer_calls, calc, answered, erased>>

\* user_ref.set({"last_riddle": ..., "last_chat_date": None}, merge=True)
get_riddle_write(c) ==
    /\ pc[c] = "get_riddle_write"
    /\ user' = SetMerge(user, get_riddle_data(loc[c].selected))
    /\ Return(c, Response(200, "riddle", loc[c].selected))
    /\ wrote' = Write("get_riddle", <<>>, loc[c].today)
    /\ erased' = (erased \/ (/\ Get(user, "last_chat_date") # None
                              /\ Get(user, "last_chat_date") #
                                     Get(loc[c].riddle_data, "last_chat_date")))
    /\ UNCHANGED <<now, chats, profile, solved, stored, summarizer_calls, calc, answered>>

----------------------------------------------------------------------------
(* POST /verify_answer/{user_id} *)

\* next((r for r in riddles if r["question"] == riddle_data["last_riddle"]), None),
\* as the set of the first matching entry: empty when there is none
correct_riddle(riddle_data) ==
    LET hits == {i \in 1..Len(riddles) : riddles[i].question = riddle_data["last_riddle"]}
    IN  {riddles[i] : i \in {j \in hits : \A k \in hits : j <= k}}

\* The comparison without strip() and lower()
answer_matches_exact(answer, riddle) ==
    answer = riddle.answer

\* answer.strip().lower() == correct_riddle["answer"]
answer_matches(answer, riddle) ==
    lower(strip(answer)) = riddle.answer

\* the fields verify_answer writes
verify_answer_data(today) ==
    [last_chat_date |-> IsoFormat(today)]

\* No riddle taken yet, answered as a wrong answer
verify_answer_check_no_gate(riddle_data, answer) ==
    IF "last_riddle" \notin DOMAIN riddle_data
    THEN Response(200, "message", "Incorrect answer! Try again.")
    ELSE IF correct_riddle(riddle_data) = {}
    THEN Response(500, "detail", "Something went wrong!")
    ELSE IF \E r \in correct_riddle(riddle_data) : answer_matches(answer, r)
    THEN Response(200, "go on", "")
    ELSE Response(200, "message", "Incorrect answer! Try again.")

\* A wrong answer raised as a client error
verify_answer_check_raises(riddle_data, answer) ==
    IF "last_riddle" \notin DOMAIN riddle_data
    THEN Response(400, "detail", "You haven't taken a riddle yet!")
    ELSE IF correct_riddle(riddle_data) = {}
    THEN Response(500, "detail", "Something went wrong!")
    ELSE IF \E r \in correct_riddle(riddle_data) : answer_matches(answer, r)
    THEN Response(200, "go on", "")
    ELSE Response(400, "detail", "Incorrect answer! Try again.")

\* An answer is taken only while the riddle is pending (no last_chat_date)
verify_answer_check_pending_only(riddle_data, answer) ==
    IF "last_riddle" \notin DOMAIN riddle_data
    THEN Response(400, "detail", "You haven't taken a riddle yet!")
    ELSE IF Get(riddle_data, "last_chat_date") # None
    THEN Response(400, "detail", "You have already ended this chat.")
    ELSE IF correct_riddle(riddle_data) = {}
    THEN Response(500, "detail", "Something went wrong!")
    ELSE IF \E r \in correct_riddle(riddle_data) : answer_matches(answer, r)
    THEN Response(200, "go on", "")
    ELSE Response(200, "message", "Incorrect answer! Try again.")

\* what verify_answer answers without writing: the 400, the 500, the retry
\* message; "go on" when the answer matches
verify_answer_check(riddle_data, answer) ==
    IF "last_riddle" \notin DOMAIN riddle_data
    THEN Response(400, "detail", "You haven't taken a riddle yet!")
    ELSE IF correct_riddle(riddle_data) = {}
    THEN Response(500, "detail", "Something went wrong!")
    ELSE IF \E r \in correct_riddle(riddle_data) : answer_matches(answer, r)
    THEN Response(200, "go on", "")
    ELSE Response(200, "message", "Incorrect answer! Try again.")

\* riddle_data = user_ref.get().to_dict() or {} and the checks on it
verify_answer_read(c, answer, overlap) ==
    LET today == Day(now)
        riddle_data == user
        checked == verify_answer_check(riddle_data, answer)
    IN  /\ Free(c, overlap)
        /\ \/ /\ checked.key # "go on"
              /\ Return(c, checked)
           \/ /\ checked.key = "go on"
              /\ loc' = [loc EXCEPT ![c] = [Idle EXCEPT !.today = today, !.answer = answer,
                                               !.riddle_data = riddle_data]]
              /\ pc' = [pc EXCEPT ![c] = "verify_answer_write"]
              /\ UNCHANGED resp
        /\ answered' = IF overlap
                       THEN answered \cup {riddles[i].question :
                                i \in {j \in 1..Len(riddles) : answer_matches(answer, riddles[j])}}
                       ELSE answered
        /\ UNCHANGED <<now, user, chats, profile, wrote, solved, stored, summarizer_calls, calc, erased>>

\* user_ref.set({"last_chat_date": today.isoformat()}, merge=True)
verify_answer_write(c) ==
    /\ pc[c] = "verify_answer_write"
    /\ user' = SetMerge(user, verify_answer_data(loc[c].today))
    /\ Return(c, Response(200, "message",
                  "Correct! You have successfully ended today's chat. See you tomorrow!"))
    /\ wrote' = Write("verify_answer", loc[c].answer, loc[c].today)
    /\ solved' = solved \cup {loc[c].today}
    /\ UNCHANGED <<stored, summarizer_calls, calc, answered, erased>>
    /\ UNCHANGED <<now, chats, profile>>

----------------------------------------------------------------------------
(* The system *)

ChatStep(overlap) ==
    \/ \E c \in Clients, m \in Messages : store_chat_upsert(c, m, overlap)
    \/ \E c \in Clients : store_chat_get(c)
    \/ \E c \in Clients : store_chat_init(c)
    \/ \E c \in Clients : store_chat_update(c)
    \/ \E c \in Clients : summarize_chats(c, overlap)

ProfileStep(overlap) ==
    \E c \in Clients, n \in Names, p \in Pfps : set_ai_profile(c, n, p, overlap)

RiddleStep(overlap) ==
    \/ \E c \in Clients : get_riddle_read(c, overlap)
    \/ \E c \in Clients : get_riddle_write(c)
    \/ \E c \in Clients, a \in Answers : verify_answer_read(c, a, overlap)
    \/ \E c \in Clients : verify_answer_write(c)

\* The whole service, its calls not overlapping
Next ==
    \/ Tick
    \/ ChatStep(FALSE)
    \/ ProfileStep(FALSE)
    \/ RiddleStep(FALSE)

Spec == Init /\ [][Next]_vars

\* The chat handlers, their calls overlapping
NextOverlapChat ==
    \/ Tick
    \/ ChatStep(TRUE)

\* The whole service, started with a profile settings document that holds a
\* field another writer of the store has put there
OtherSettings == [theme |-> "dark"]
InitSettings == InitWith(OtherSettings, {NoCalc})
SpecSettings == InitSettings /\ [][Next]_vars

\* chunk_text on its own, for every text and budget of ChunkCalls
InitChunk == InitWith(NoDoc, ChunkCalls)
NextChunk == chunk_text_call
SpecChunk == InitChunk /\ [][NextChunk]_vars

\* sanitize_text on its own, for every text of SanitizeCalls, and
\* set_ai_profile given that text as the name or as the pfp
InitSanitize == InitWith(NoDoc, SanitizeCalls)
NextSanitize ==
    \/ sanitize_text_call
    \/ sanitize_text_again
    \/ \E c \in Clients, p \in Pfps : set_ai_profile(c, calc.text, p, FALSE)
    \/ \E c \in Clients, n \in Names : set_ai_profile(c, n, calc.text, FALSE)
SpecSanitize == InitSanitize /\ [][NextSanitize]_vars

\* get_riddle and verify_answer requests that overlap
NextOverlapRiddle == Tick \/ RiddleStep(TRUE)
SpecOverlapRiddle == Init /\ [][NextOverlapRiddle]_vars

\* Requests to every handler, overlapping, between two ticks of the clock
NextOverlap == ChatStep(TRUE) \/ ProfileStep(TRUE) \/ RiddleStep(TRUE)
SpecOverlap == Init /\ [][NextOverlap]_vars

SpecOverlapChat == Init /\ [][NextOverlapChat]_vars

----------------------------------------------------------------------------
(* The claims *)

\* The responses the claims name
ComeBackTomorrow ==
    Response(200, "message", "You have already ended today's chat. Come back tomorrow!")
Correct ==
    Response(200, "message",
             "Correct! You have successfully ended today's chat. See you tomorrow!")
Incorrect == Response(200, "message", "Incorrect answer! Try again.")

\* The catalog's answer to a question of the catalog
CatalogAnswer(question) ==
    riddles[CHOOSE i \in 1..Len(riddles) : riddles[i].question = question].answer

\* The trimmed, lower-cased answer is the catalog's answer to the question
IsCorrectFor(answer, question) ==
    /\ \E i \in 1..Len(riddles) : riddles[i].question = question
    /\ lower(strip(answer)) = CatalogAnswer(question)

\* C1: with calls that do not overlap, last_chat_date holds a date only when
\* the request that wrote the riddle state last was a verify_answer whose
\* answer is correct for the stored last_riddle, and after a get_riddle that
\* issued a riddle last_chat_date is null.
C1_LastChatDateOnlyAfterCorrectAnswer ==
    /\ Get(user, "last_chat_date") # None =>
          /\ wrote.op = "verify_answer"
          /\ "last_riddle" \in DOMAIN user
          /\ IsCorrectFor(wrote.answer, user["last_riddle"])
    /\ wrote.op = "get_riddle" =>
          /\ "last_chat_date" \in DOMAIN user
          /\ user["last_chat_date"] = None

\* A completion is recorded for an answer that needed trimming and
\* lower-casing.
C1_Witness ==
    /\ Get(user, "last_chat_date") # None
    /\ wrote.op = "verify_answer"
    /\ wrote.answer # CatalogAnswer(user["last_riddle"])

\* C2: the messages of a ChatDay only grow: every entry a ChatDay holds is
\* still in it after every step, also when store_chat calls overlap.
C2_MessagesOnlyGrow ==
    [][\A id \in DOMAIN chats :
          /\ id \in DOMAIN chats'
          /\ \A i \in 1..Len(chats[id]["messages"]) :
                \E j \in 1..Len(chats'[id]["messages"]) :
                    chats'[id]["messages"][j] = chats[id]["messages"][i]]_vars

\* C3: a created_at the user record holds is never overwritten.
C3_CreatedAtKept ==
    [][("created_at" \in DOMAIN user) =>
          /\ "created_at" \in DOMAIN user'
          /\ user'["created_at"] = user["created_at"]]_vars

\* C4: a summarize_chats call collects the text of every stored message whose
\* timestamp is at or after now minus 7 days.
C4_SummarizeCollectsRecent ==
    [][\A c \in Clients : summarize_chats(c, FALSE) =>
          \A id \in DOMAIN chats : \A i \in 1..Len(chats[id]["messages"]) :
              chats[id]["messages"][i].timestamp >= now - WindowDays * TicksPerDay =>
                  /\ resp' # NoMessagesFound
                  /\ \A w \in 1..Len(split(chats[id]["messages"][i].text)) :
                        \E k \in 1..Len(summarizer_calls') :
                            \E v \in 1..Len(split(summarizer_calls'[k])) :
                                split(summarizer_calls'[k])[v] =
                                    split(chats[id]["messages"][i].text)[w]]_vars

\* C5: with at least 2 riddles in the catalog and calls that do not overlap, a
\* get_riddle call that issues a riddle to a user with a last_riddle recorded
\* returns and stores a question other than that last_riddle.
C5_NoImmediateRepeat ==
    [][\A c \in Clients : get_riddle_write(c) =>
          /\ Len(riddles) >= 2
          /\ resp'.key = "riddle"
          /\ user'["last_riddle"] = resp'.val
          /\ ("last_riddle" \in DOMAIN user => resp'.val # user["last_riddle"])]_vars

\* The second of two get_riddle calls has chosen its question.
C5_Witness ==
    \E c \in Clients :
        /\ pc[c] = "get_riddle_write"
        /\ "last_riddle" \in DOMAIN user
        /\ wrote.op = "get_riddle"
        /\ loc[c].selected # user["last_riddle"]

\* C6: with calls that do not overlap, a get_riddle call made on the day of a
\* correct verify_answer, the riddle state not written since, returns the
\* "come back tomorrow" message and leaves the user record as it is.
C6_SameDayComeBack ==
    [][\A c \in Clients :
          (get_riddle_read(c, FALSE) /\ wrote.op = "verify_answer" /\ wrote.today = Day(now)) =>
              /\ resp' = ComeBackTomorrow
              /\ pc'[c] = "idle"
              /\ user' = user]_vars

\* A get_riddle call of the day of the correct answer has returned.
C6_Witness ==
    /\ resp = ComeBackTomorrow
    /\ wrote.op = "verify_answer"
    /\ wrote.today = Day(now)

\* A get_riddle call issues a riddle: it goes on to its write, which returns
\* the question, stores it as last_riddle and sets last_chat_date to null
IssuesRiddle(c) ==
    /\ pc'[c] = "get_riddle_write"
    /\ \E i \in 1..Len(riddles) : loc'[c].selected = riddles[i].question

RiddleIssued(c) ==
    /\ resp' = Response(200, "riddle", loc[c].selected)
    /\ "last_riddle" \in DOMAIN user' /\ user'["last_riddle"] = loc[c].selected
    /\ "last_chat_date" \in DOMAIN user' /\ user'["last_chat_date"] = None

\* C7, as claimed: after a correct verify_answer of day D, the first
\* get_riddle call of a later day issues a riddle, stores its question as
\* last_riddle and sets last_chat_date to null.
C7_FirstCallOfLaterDayIssues ==
    [][\A c \in Clients :
          /\ (get_riddle_read(c, FALSE) /\ \E D \in solved : D < Day(now)) => IssuesRiddle(c)
          /\ get_riddle_write(c) => RiddleIssued(c)]_vars

\* C7, amended: the same, for a later day on which no correct verify_answer
\* came before the get_riddle call.
C7_FirstCallOfLaterDayIssuesUnlessSolvedThatDay ==
    [][\A c \in Clients :
          /\ (get_riddle_read(c, FALSE) /\ (\E D \in solved : D < Day(now))
                 /\ Day(now) \notin solved) => IssuesRiddle(c)
          /\ get_riddle_write(c) => RiddleIssued(c)]_vars

\* A get_riddle call that read the completion of an earlier day has chosen a
\* riddle.
C7_Witness ==
    \E c \in Clients :
        /\ pc[c] = "get_riddle_write"
        /\ Get(loc[c].riddle_data, "last_chat_date") # None
        /\ Get(loc[c].riddle_data, "last_chat_date") # IsoFormat(loc[c].today)
        /\ solved = {}

\* C8: a verify_answer call for a user no riddle was ever issued to answers
\* with status 400 and leaves the stored documents as they are.
C8_NoRiddleYetIsClientError ==
    [][\A c \in Clients : \A a \in Answers :
          (verify_answer_read(c, a, FALSE) /\ wrote.op = "none") =>
              /\ resp'.status = 400
              /\ pc'[c] = "idle"
              /\ UNCHANGED <<user, chats, profile>>]_vars

\* The 400 was returned for a user record that store_chat created.
C8_Witness ==
    /\ resp.status = 400
    /\ wrote.op = "none"
    /\ "created_at" \in DOMAIN user
    /\ profile # NoDoc

\* C9: for a user with a last_riddle recorded, verify_answer goes on to write
\* exactly when the trimmed, lower-cased answer is the catalog's answer to
\* that last_riddle; its write returns the success message, sets
\* last_chat_date to the date the call read and leaves last_riddle as it is;
\* a call that does not write does not return the success message.
C9_CorrectExactlyWhenAnswerOfLastRiddle ==
    [][\A c \in Clients :
          /\ \A a \in Answers :
                (verify_answer_read(c, a, FALSE) /\ "last_riddle" \in DOMAIN user) =>
                    /\ pc'[c] = "verify_answer_write" <=> IsCorrectFor(a, user["last_riddle"])
                    /\ pc'[c] = "idle" => (resp' # Correct /\ user' = user)
          /\ verify_answer_write(c) =>
                /\ IsCorrectFor(loc[c].answer, user["last_riddle"])
                /\ resp' = Correct
                /\ user'["last_chat_date"] = IsoFormat(loc[c].today)
                /\ user'["last_riddle"] = user["last_riddle"]]_vars

\* An answer that needed trimming and lower-casing was accepted.
C9_Witness ==
    /\ resp = Correct
    /\ wrote.op = "verify_answer"
    /\ wrote.answer # lower(strip(wrote.answer))
    /\ user["last_chat_date"] = IsoFormat(wrote.today)

\* C10: a verify_answer call whose answer is not the answer of the recorded
\* last_riddle returns the retry message and leaves the stored documents as
\* they are.
C10_WrongAnswerChangesNothing ==
    [][\A c \in Clients : \A a \in Answers :
          (/\ verify_answer_read(c, a, FALSE)
           /\ "last_riddle" \in DOMAIN user
           /\ ~IsCorrectFor(a, user["last_riddle"])) =>
              /\ resp' = Incorrect
              /\ pc'[c] = "idle"
              /\ UNCHANGED <<user, chats, profile>>]_vars

\* The retry message was returned while a riddle is pending.
C10_Witness ==
    /\ resp = Incorrect
    /\ "last_riddle" \in DOMAIN user
    /\ Get(user, "last_chat_date") = None

\* C11: after k store_chat requests for a ChatDay with the same text have
\* returned, the ChatDay holds k entries with that text.
C11_EachCallPersists ==
    \A k \in DOMAIN stored :
        /\ k[1] \in DOMAIN chats
        /\ Cardinality({i \in 1..Len(chats[k[1]]["messages"]) :
                            chats[k[1]]["messages"][i].text = k[2]}) = stored[k]

\* The words of a text by their positions: a word starts at a character that
\* is not whitespace and follows whitespace or nothing, and ends before the
\* next whitespace or at the end
WordStarts(text) ==
    {i \in 1..Len(text) : text[i] \notin Whitespace /\ (i = 1 \/ text[i - 1] \in Whitespace)}
WordEnd(text, i) ==
    CHOOSE j \in i..Len(text) :
        /\ \A k \in i..j : text[k] \notin Whitespace
        /\ (j = Len(text) \/ text[j + 1] \in Whitespace)
Words(text) ==
    LET starts == WordStarts(text)
        nth(k) == CHOOSE i \in starts : Cardinality({j \in starts : j < i}) = k - 1
    IN  [k \in 1..Cardinality(starts) |-> SubSeq(text, nth(k), WordEnd(text, nth(k)))]
RECURSIVE WordsOfAll(_)
WordsOfAll(chunks) ==
    IF chunks = <<>> THEN <<>> ELSE Words(Head(chunks)) \o WordsOfAll(Tail(chunks))

\* C12: chunk_text(text, B) with B >= 1 on a text of N words returns ceil(N/B)
\* chunks, each but the last of exactly B words, none empty, and the words of
\* the chunks in order are the words of the text.
C12_ChunksPartitionTheWords ==
    (calc.fn = "chunk_text" /\ calc.done) =>
        LET N == Len(Words(calc.text))
            B == calc.max_tokens
            n == Len(calc.result)
        IN  /\ n * B >= N /\ (n > 0 => (n - 1) * B < N)
            /\ \A k \in 1..n : /\ Len(Words(calc.result[k])) >= 1
                               /\ k < n => Len(Words(calc.result[k])) = B
            /\ WordsOfAll(calc.result) = Words(calc.text)
            /\ (calc.text = <<>> => calc.result = <<>>)
C12_Witness ==
    /\ calc.fn = "chunk_text" /\ calc.done
    /\ calc.max_tokens = 2
    /\ Len(calc.result) = 2
    /\ Len(Words(calc.result[2])) = 1

\* C13: a summarize_chats call whose query retrieves no message returns the
\* fixed sentence "No messages found in the past 7 days." and passes nothing
\* to the summarizer.
C13_NoMessagesNoSummarizer ==
    [][\A c \in Clients :
          (/\ summarize_chats(c, FALSE)
           /\ message_texts(where_timestamp_ge(now - WindowDays * TicksPerDay)) = {}) =>
              /\ resp'.status = 200 /\ resp'.key = "summary"
              /\ resp'.val = <<"No messages found in the past 7 days.">>
              /\ summarizer_calls' = <<>>]_vars
C13_Witness ==
    /\ chats = [d \in {} |-> NoDoc]
    /\ resp = NoMessagesFound
    /\ summarizer_calls = <<>>

\* C14: sanitize_text applied to its own result returns that result.
C14_SanitizeIdempotent ==
    (calc.fn = "sanitize_text" /\ calc.step = 2) => calc.again = calc.result
C14_Witness ==
    /\ calc.fn = "sanitize_text" /\ calc.step = 2
    /\ calc.result # calc.text
    /\ calc.result # <<>>
    /\ calc.again = calc.result

\* The letters, digits and whitespace of a text, in their order
RECURSIVE Kept(_)
Kept(text) ==
    IF text = <<>> THEN <<>>
    ELSE IF Head(text) \in Letters \cup Digits \cup Whitespace
         THEN <<Head(text)>> \o Kept(Tail(text))
         ELSE Kept(Tail(text))

\* out holds only letters, digits and whitespace, neither starts nor ends with
\* whitespace, and is the kept characters of text, in their order, without
\* whitespace at the two ends
Sanitized(text, out) ==
    LET kept == Kept(text)
    IN  /\ \A i \in 1..Len(out) : out[i] \in Letters \cup Digits \cup Whitespace
        /\ out # <<>> => out[1] \notin Whitespace /\ out[Len(out)] \notin Whitespace
        /\ \E i \in 1..(Len(kept) + 1) :
              /\ i + Len(out) - 1 <= Len(kept)
              /\ out = SubSeq(kept, i, i + Len(out) - 1)
              /\ \A j \in 1..Len(kept) :
                    (j < i \/ j > i + Len(out) - 1) => kept[j] \in Whitespace

ProfileUpdated == Response(200, "message", "AI profile updated")

\* C16: a set_ai_profile call changes only the fields name and pfp of the
\* profile settings document: its other fields, the user document
\* (created_at, last_riddle, last_chat_date) and the ChatDay documents are
\* the same after the call as before.
C16_ProfileWritesOnlyNameAndPfp ==
    [][(profile' # profile \/ (resp' # resp /\ resp' = ProfileUpdated)) =>
          /\ \A f \in DOMAIN profile \ {"name", "pfp"} :
                f \in DOMAIN profile' /\ profile'[f] = profile[f]
          /\ DOMAIN profile' \subseteq DOMAIN profile \cup {"name", "pfp"}
          /\ user' = user
          /\ chats' = chats]_vars
C16_Witness ==
    /\ resp = ProfileUpdated
    /\ DOMAIN profile = {"theme", "name", "pfp"}
    /\ {"created_at", "last_riddle", "last_chat_date"} \subseteq DOMAIN user
    /\ user["last_chat_date"] # None
    /\ \E d \in DOMAIN chats : chats[d]["messages"] # <<>>

\* C17: when get_riddle and verify_answer requests overlap, each write sets
\* its fields from what its own request has read and chosen, whatever has
\* been written since: get_riddle's write records its question and sets
\* last_chat_date to None, verify_answer's write records its day and leaves
\* the last_riddle that is stored by then.  (Reached: a completion erased by a
\* get_riddle in flight, and last_chat_date of today beside a last_riddle
\* whose answer no request has been given.)
C17_LastWriterWins ==
    [][\A c \in Clients :
          /\ (pc[c] = "get_riddle_write" /\ pc'[c] = "idle") =>
                /\ user'["last_riddle"] = loc[c].selected
                /\ user'["last_chat_date"] = None
          /\ (pc[c] = "verify_answer_write" /\ pc'[c] = "idle") =>
                /\ user'["last_chat_date"] = IsoFormat(loc[c].today)
                /\ Get(user', "last_riddle") = Get(user, "last_riddle")]_vars
C17_Witness ==
    /\ erased
    /\ Get(user, "last_chat_date") = IsoFormat(Day(now))
    /\ "last_riddle" \in DOMAIN user
    /\ user["last_riddle"] \notin answered
    /\ wrote.op = "verify_answer"

\* C18: in every state reached by store_chat, set_ai_profile, get_riddle and
\* verify_answer requests in any order and interleaving, a recorded
\* last_riddle is the question of an entry of the catalog, and no request has
\* been answered with HTTP 500 "Something went wrong!".
C18_LastRiddleInCatalog ==
    /\ "last_riddle" \in DOMAIN user =>
          \E i \in 1..Len(riddles) : riddles[i].question = user["last_riddle"]
    /\ resp.status # 500
    /\ \A c \in Clients : "last_riddle" \in DOMAIN loc[c].riddle_data =>
          \E i \in 1..Len(riddles) : riddles[i].question = loc[c].riddle_data["last_riddle"]
C18_Witness ==
    /\ {"created_at", "last_riddle"} \subseteq DOMAIN user
    /\ "name" \in DOMAIN profile
    /\ erased
    /\ resp = Incorrect
    /\ \E c \in Clients : pc[c] = "store_chat_update"

\* C19: verify_answer looks neither at last_chat_date nor at the day the
\* riddle was issued: whenever a last_riddle is recorded, a request with its
\* correct answer goes on to write, and its write returns the success message
\* and sets last_chat_date to the day the request read from the clock, also
\* when the riddle was issued or already answered on an earlier day.
C19_CorrectAnswerCompletesOnAnyDay ==
    [][\A c \in Clients :
          /\ (/\ pc[c] = "idle"
              /\ "last_riddle" \in DOMAIN user
              /\ UNCHANGED <<now, user, chats, profile, solved, stored>>
              /\ \A d \in Clients \ {c} : pc'[d] = pc[d]) =>
              \A a \in Answers :
                (/\ IsCorrectFor(a, user["last_riddle"])
                 /\ verify_answer_read(c, a, FALSE)) =>
                    /\ pc'[c] = "verify_answer_write"
                    /\ loc'[c].today = Day(now)
          /\ (pc[c] = "verify_answer_write" /\ pc'[c] = "idle") =>
                /\ resp' = Correct
                /\ user'["last_chat_date"] = IsoFormat(loc[c].today)]_vars

\* The chat of day 1 was completed with the answer of a riddle issued and
\* answered on day 0, without a get_riddle request on day 1.
C19_Witness ==
    /\ resp = Correct
    /\ {0, 1} \subseteq solved
    /\ wrote = Write("verify_answer", wrote.answer, 1)
    /\ user["last_chat_date"] = IsoFormat(1)
    /\ Day(now) = 1
====
